---- MODULE Spec2Model ----
\* Model of the thumbnail and video upload handlers of the media backend
\* (src/src/api/thumbnails.ts, src/src/api/videos.ts).
\*
\* Every request handler is an async function; it runs without interruption
\* from one `await` to the next, and other requests may run in between.
\* Each action below is one such uninterruptible segment of a handler.
EXTENDS Integers, Sequences, FiniteSets, TLC

\* ------------------------------------------------------------------ bounds
NumReqs == 2        \* requests that arrive during a run
MaxDim == 36        \* probed widths/heights 0..MaxDim (plus the named sizes)

\* ------------------------------------------------------- program constants
MAX_UPLOAD_SIZE_THUMBNAIL == 10485760       \* 10 << 20
MAX_UPLOAD_SIZE_VIDEO == 1073741824         \* 1 << 30
MantissaBits == 53                          \* IEEE-754 double (JS number)

\* ------------------------------------------------------------ input values
Reqs == 1..NumReqs
NoUser == "anonymous"                 \* request without a valid bearer token
Users == {"alice", "bob"}             \* "alice" owns the record "v1"
VideoIds == {"v1", "v0"}              \* "v0" names no record
NoFile == [size |-> 0, type |-> "none", bytes |-> "none"]
SmallJpeg == [size |-> 1, type |-> "image/jpeg", bytes |-> "a"]
SmallMp4 == [size |-> 1, type |-> "video/mp4", bytes |-> "a"]
Files ==
  { SmallJpeg,
    [size |-> MAX_UPLOAD_SIZE_THUMBNAIL, type |-> "image/png", bytes |-> "b"],
    [size |-> MAX_UPLOAD_SIZE_THUMBNAIL + 1, type |-> "image/jpeg", bytes |-> "a"],
    SmallMp4,
    [size |-> MAX_UPLOAD_SIZE_VIDEO, type |-> "video/mp4", bytes |-> "b"],
    [size |-> MAX_UPLOAD_SIZE_VIDEO + 1, type |-> "video/mp4", bytes |-> "a"] }
Uploads == Files \cup {NoFile}
\* the requests sent: who sends, for which video, with which form field.
\* The owner sends every file; the other callers send a missing file and a
\* file that would be accepted from the owner.
Requests ==
  {[token |-> "alice", videoId |-> "v1", upload |-> u] : u \in Uploads}
    \cup {[token |-> "bob", videoId |-> "v1", upload |-> u] : u \in {NoFile, SmallJpeg, SmallMp4}}
    \cup {[token |-> "alice", videoId |-> "v0", upload |-> u] : u \in {NoFile, SmallJpeg, SmallMp4}}
    \cup {[token |-> NoUser, videoId |-> "v1", upload |-> NoFile]}

\* what ffprobe reports as the first stream of each uploaded content
Dims(bytes) == IF bytes = "a" THEN <<1920, 1080>> ELSE <<1080, 1920>>

VARIABLES
  db,               \* videos table: id -> record
  disk,             \* cfg.assetsRoot: path -> content
  inflight,         \* Bun.write calls issued and not awaited, not yet settled
  s3,               \* remote bucket: set of objects
  videoThumbnails,  \* the module-level Map of thumbnails.ts
  req,              \* per request: the handler's locals and position
  width, height, category   \* inputs and result of one aspect classification

vars == <<db, disk, inflight, s3, videoThumbnails, req, width, height, category>>

\* ------------------------------------------------- JS number arithmetic
\* `height / 9` is an IEEE-754 double division: the quotient is rounded to
\* MantissaBits significant bits (round to nearest, ties to even).  A double
\* is kept here as an integer part and a big-endian sequence of fraction bits.
RECURSIVE BitLen(_)
BitLen(n) == IF n = 0 THEN 0 ELSE 1 + BitLen(n \div 2)

RECURSIVE LeadingZeros(_, _)
LeadingZeros(r, d) == IF 2 * r >= d THEN 0 ELSE 1 + LeadingZeros(2 * r, d)

RECURSIVE FracBits(_, _, _)
FracBits(r, d, k) ==
  IF k = 0 THEN << >> ELSE <<(2 * r) \div d>> \o FracBits((2 * r) % d, d, k - 1)

RECURSIVE RemAfter(_, _, _)
RemAfter(r, d, k) == IF k = 0 THEN r ELSE RemAfter((2 * r) % d, d, k - 1)

RECURSIVE Incr(_)
\* bits + 1; the result is one bit longer, its head is the carry out
Incr(bits) ==
  IF Len(bits) = 0 THEN <<1>>
  ELSE LET front == SubSeq(bits, 1, Len(bits) - 1)
       IN IF bits[Len(bits)] = 0 THEN <<0>> \o front \o <<1>>
                                 ELSE Incr(front) \o <<0>>

RECURSIVE BitsValue(_)
BitsValue(bits) ==
  IF Len(bits) = 0 THEN 0
  ELSE 2 * BitsValue(SubSeq(bits, 1, Len(bits) - 1)) + bits[Len(bits)]

DoubleDiv(h, d) ==
  LET n == h \div d
      r == h % d
  IN IF r = 0 THEN [int |-> n, frac |-> << >>]
     ELSE LET k == IF n = 0 THEN MantissaBits + LeadingZeros(r, d)
                             ELSE MantissaBits - BitLen(n)
              kept == FracBits(r, d, k)
              rest == RemAfter(r, d, k)
              guard == (2 * rest) \div d
              sticky == (2 * rest) % d # 0
              up == guard = 1 /\ (sticky \/ kept[k] = 1)
              sum == IF up THEN Incr(kept) ELSE <<0>> \o kept
          IN [int |-> n + sum[1], frac |-> SubSeq(sum, 2, k + 1)]

\* Math.floor(16 * x): multiplying by 16 only moves the exponent, so the
\* product is exact and its floor is the integer part followed by the first
\* four fraction bits.
FloorTimes16(x) ==
  IF Len(x.frac) = 0 THEN 16 * x.int
  ELSE 16 * x.int + BitsValue(SubSeq(x.frac, 1, 4))

getVideoAspectRatioSwapped(w, h) ==
  IF h = FloorTimes16(DoubleDiv(w, 9)) THEN "landscape"
  ELSE IF w = FloorTimes16(DoubleDiv(h, 9)) THEN "portrait"
  ELSE "other"

\* the classification at the end of getVideoAspectRatio
getVideoAspectRatio(w, h) ==
  IF w = FloorTimes16(DoubleDiv(h, 9)) THEN "landscape"
  ELSE IF h = FloorTimes16(DoubleDiv(w, 9)) THEN "portrait"
  ELSE "other"

\* ------------------------------------------------------------ collaborators
\* A file name or object key: `${dir}/${name}.${ext}`, with ".processed"
\* appended when processed is TRUE.
NoPath == [dir |-> "", name |-> "", ext |-> "", processed |-> FALSE]
NoURL == [base |-> "none", dir |-> "", name |-> "", ext |-> "", processed |-> FALSE]
NoVideo == [id |-> "none", userID |-> "none", thumbnailURL |-> NoURL, videoURL |-> NoURL]

\* `${base}/${key}`
url(base, key) ==
  [base |-> base, dir |-> key.dir, name |-> key.name, ext |-> key.ext,
   processed |-> key.processed]
\* the file or object a URL names
keyOf(u) == [dir |-> u.dir, name |-> u.name, ext |-> u.ext, processed |-> u.processed]

\* getBearerToken + validateJWT: the user id of the token, or an AuthError
validateJWT(token) == IF token \in Users THEN token ELSE "AuthError"

\* getVideo(cfg.db, videoId): a copy of the row, or undefined
getVideo(d, videoId) == IF videoId \in DOMAIN d THEN d[videoId] ELSE NoVideo

\* updateVideo(cfg.db, video): the row is replaced by the object passed
updateVideo(d, video) == [d EXCEPT ![video.id] = video]

\* randomBytes(32) encoded: a name no other request draws
randomBytes(r) == ToString(r)

\* mediaType.split("/")[1]
extension(mediaType) ==
  CASE mediaType = "image/jpeg" -> "jpeg"
    [] mediaType = "image/png" -> "png"
    [] mediaType = "image/gif" -> "gif"
    [] mediaType = "video/mp4" -> "mp4"
    [] OTHER -> ""

\* path.join(cfg.assetsRoot, `${name}.${ext}`)
assetPath(name, ext) == [dir |-> "", name |-> name, ext |-> ext, processed |-> FALSE]

\* `${inputFilePath}.processed`
processedPath(inputFilePath) == [inputFilePath EXCEPT !.processed = TRUE]

\* file contents: the uploaded bytes, as they are or rewritten by ffmpeg
raw(bytes) == [bytes |-> bytes, faststart |-> FALSE]
faststart(content) == [content EXCEPT !.faststart = TRUE]

Exists(d, p) == p \in DOMAIN d
WriteFile(d, p, content) == [q \in DOMAIN d \cup {p} |-> IF q = p THEN content ELSE d[q]]
DeleteFile(d, p) == [q \in DOMAIN d \ {p} |-> d[q]]

\* ---------------------------------------------------------------- requests
Idle ==
  [kind |-> "idle", pc |-> "idle", videoId |-> "none", token |-> "none",
   upload |-> NoFile, video |-> NoVideo, data |-> "none", category |-> "none",
   key |-> NoPath, outcome |-> "none", status |-> 0, json |-> NoVideo,
   body |-> "none", contentType |-> "none", log |-> << >>, after |-> {},
   probe |-> [exited |-> -1, streams |-> -1], ffmpeg |-> -1]

\* the request ends: an error response, or 200 with a body
Throw(q, error, code) == [q EXCEPT !.pc = "ended", !.outcome = error, !.status = code]
respondWithJSON(q, video) ==
  [q EXCEPT !.pc = "ended", !.outcome = "Done", !.status = 200, !.json = video]

Logged(q, step) == [q EXCEPT !.log = Append(@, step)]

\* requests are numbered in the order they arrive
Arrives(r) == req[r].kind = "idle" /\ (IF r = 1 THEN TRUE ELSE req[r - 1].kind # "idle")

Init ==
  /\ db = [id \in {"v1"} |->
            [id |-> id, userID |-> "alice", thumbnailURL |-> NoURL, videoURL |-> NoURL]]
  /\ disk = [p \in {} |-> raw("none")]
  /\ inflight = {}
  /\ s3 = {}
  /\ videoThumbnails = [id \in {} |-> [data |-> "none", mediaType |-> "none"]]
  /\ req = [r \in Reqs |-> Idle]
  /\ width = 0 /\ height = 0 /\ category = "none"

\* --------------------------------------------- handlerUploadThumbnail
\* the three checks on the "thumbnail" form field
ValidThumbnail(upload) ==
  /\ upload # NoFile
  /\ ~(upload.size > MAX_UPLOAD_SIZE_THUMBNAIL)
  /\ upload.type \in {"image/jpeg", "image/png"}

\* from the entry to `await thumbnail.arrayBuffer()`: the bearer token is
\* resolved, the form is awaited and validated.  Nothing outside the request
\* is read or written on the way, so the two segments around
\* `await req.formData()` are one step.
ThumbnailReceive(r, videoId, token, upload) ==
  /\ Arrives(r)
  /\ LET q0 == Logged([Idle EXCEPT !.kind = "thumbnail", !.videoId = videoId,
                                   !.token = token, !.upload = upload], "Authenticate")
         q1 == Logged(Logged(q0, "ReadForm"), "Validate")
     IN req' = [req EXCEPT ![r] =
                  IF validateJWT(token) = "AuthError" THEN Throw(q0, "AuthError", 401)
                  ELSE IF ~ValidThumbnail(upload) THEN Throw(q1, "BadInput", 400)
                  ELSE [q1 EXCEPT !.pc = "arrayBuffer"]]
  /\ UNCHANGED <<db, disk, inflight, s3, videoThumbnails, width, height, category>>

\* the bytes arrive; the record is loaded and checked, the file write is
\* started and not awaited, the record is updated and the response sent
ThumbnailStore(r) ==
  /\ req[r].kind = "thumbnail" /\ req[r].pc = "arrayBuffer"
  /\ LET q0 == Logged(req[r], "LoadRecord")
         video == getVideo(db, q0.videoId)
         mediaType == q0.upload.type
         name == randomBytes(r)
         file == assetPath(name, extension(mediaType))
         updated == [video EXCEPT !.thumbnailURL = url("http://localhost/assets", file)]
         q1 == [Logged(Logged(q0, "Store"), "RecordUpdate")
                  EXCEPT !.data = q0.upload.bytes, !.key = file, !.video = updated]
     IN IF video = NoVideo THEN
          /\ req' = [req EXCEPT ![r] = Throw(q0, "NotFound", 404)]
          /\ UNCHANGED <<db, inflight>>
        ELSE IF video.userID # validateJWT(q0.token) THEN
          /\ req' = [req EXCEPT ![r] = Throw(q0, "Forbidden", 403)]
          /\ UNCHANGED <<db, inflight>>
        ELSE
          /\ inflight' = inflight \cup {[path |-> file, data |-> raw(q0.upload.bytes)]}
          /\ db' = updateVideo(db, updated)
          /\ req' = [req EXCEPT ![r] = respondWithJSON(q1, updated)]
  /\ UNCHANGED <<disk, s3, videoThumbnails, width, height, category>>

\* a Bun.write nobody awaits settles: the file is on disk, or the write failed
BunWriteSettles(w, ok) ==
  /\ w \in inflight
  /\ inflight' = inflight \ {w}
  /\ disk' = IF ok THEN WriteFile(disk, w.path, w.data) ELSE disk
  /\ UNCHANGED <<db, s3, videoThumbnails, req, width, height, category>>

\* ------------------------------------------------ handlerGetThumbnail
handlerGetThumbnail(r, videoId) ==
  /\ Arrives(r)
  /\ LET q == [Idle EXCEPT !.kind = "get", !.videoId = videoId,
                 !.after = {p \in Reqs : /\ req[p].kind = "thumbnail"
                                         /\ req[p].outcome = "Done"
                                         /\ req[p].videoId = videoId}]
     IN req' = [req EXCEPT ![r] =
                  IF getVideo(db, videoId) = NoVideo THEN Throw(q, "NotFound", 404)
                  ELSE IF videoId \notin DOMAIN videoThumbnails
                    THEN Throw(q, "NotFound", 404)
                  ELSE [q EXCEPT !.pc = "ended", !.outcome = "Done", !.status = 200,
                                 !.body = videoThumbnails[videoId].data,
                                 !.contentType = videoThumbnails[videoId].mediaType]]
  /\ UNCHANGED <<db, disk, inflight, s3, videoThumbnails, width, height, category>>

\* --------------------------------------------------- handlerUploadVideo
ValidVideoAnyType(upload) ==
  /\ upload # NoFile
  /\ ~(upload.size > MAX_UPLOAD_SIZE_VIDEO)

\* the three checks on the "video" form field
ValidVideo(upload) ==
  /\ upload # NoFile
  /\ ~(upload.size > MAX_UPLOAD_SIZE_VIDEO)
  /\ upload.type \in {"video/mp4"}

\* the category getVideoAspectRatio computes for each uploaded content
\* (a table, so that the arithmetic is done once per content)
categoryOf ==
  [bytes \in {"a", "b"} |-> getVideoAspectRatio(Dims(bytes)[1], Dims(bytes)[2])]

\* what ffprobe can come back with: exit status and number of streams printed
ProbeResults ==
  { [exited |-> 0, streams |-> 1], [exited |-> 0, streams |-> 0],
    [exited |-> 1, streams |-> 0] }

ProbeThrowsOnExitOnly(result) == result.exited # 0

\* getVideoAspectRatio throws: nonzero exit status, or no stream in the output
ProbeThrows(result) == result.exited # 0 \/ result.streams = 0

\* processVideoForFastStart throws: nonzero exit status
TranscodeThrows(exited) == exited # 0

\* the file handed to s3File.write: Bun.file(processesFilePath)
StoredFile(filePath) == processedPath(filePath)

\* from the entry to `await upload.arrayBuffer()`: token, record and owner
\* are checked, then the form is awaited and validated.  After getVideo
\* nothing outside the request is read or written on the way, so the two
\* segments around `await req.formData()` are one step.
VideoReceive(r, videoId, token, upload) ==
  /\ Arrives(r)
  /\ LET q0 == Logged([Idle EXCEPT !.kind = "video", !.videoId = videoId,
                                   !.token = token, !.upload = upload], "Authenticate")
         q1 == Logged(q0, "LoadRecord")
         q2 == Logged(Logged(q1, "ReadForm"), "Validate")
         video == getVideo(db, videoId)
     IN req' = [req EXCEPT ![r] =
                  IF validateJWT(token) = "AuthError" THEN Throw(q0, "AuthError", 401)
                  ELSE IF video = NoVideo THEN Throw(q1, "NotFound", 404)
                  ELSE IF video.userID # validateJWT(token) THEN Throw(q1, "Forbidden", 403)
                  ELSE IF ~ValidVideo(upload) THEN Throw(q2, "BadInput", 400)
                  ELSE [q2 EXCEPT !.pc = "arrayBuffer", !.video = video]]
  /\ UNCHANGED <<db, disk, inflight, s3, videoThumbnails, width, height, category>>

\* the bytes arrive and `await Bun.write(filePath, data)` completes; ffprobe
\* is spawned
VideoPersistTemp(r) ==
  /\ req[r].kind = "video" /\ req[r].pc = "arrayBuffer"
  /\ LET q == req[r]
         filePath == assetPath(q.videoId, extension(q.upload.type))
     IN /\ disk' = WriteFile(disk, filePath, raw(q.upload.bytes))
        /\ req' = [req EXCEPT ![r] =
                     [Logged(q, "PersistTemp") EXCEPT !.pc = "probe",
                                                      !.data = q.upload.bytes]]
  /\ UNCHANGED <<db, inflight, s3, videoThumbnails, width, height, category>>

\* ffprobe exits (`await proc.exited`); the category and the key are
\* computed and ffmpeg is spawned
VideoProbe(r, result) ==
  /\ req[r].kind = "video" /\ req[r].pc = "probe"
  /\ LET q == [Logged(req[r], "Probe") EXCEPT !.probe = result]
         filePath == assetPath(q.videoId, extension(q.upload.type))
         readable == Exists(disk, filePath)
     IN req' = [req EXCEPT ![r] =
                  IF ~readable \/ ProbeThrows(result)
                    THEN Throw(q, "ProbeError", 500)
                  ELSE LET cat == categoryOf[disk[filePath].bytes]
                       IN [q EXCEPT !.pc = "transcode", !.category = cat,
                             !.key = [dir |-> cat, name |-> randomBytes(r),
                                      ext |-> extension(q.upload.type),
                                      processed |-> FALSE]]]
  /\ UNCHANGED <<db, disk, inflight, s3, videoThumbnails, width, height, category>>

\* ffmpeg exits (`await proc.exited` in processVideoForFastStart); the
\* upload of the processed file is started
VideoTransform(r, exited) ==
  /\ req[r].kind = "video" /\ req[r].pc = "transcode"
  /\ LET q == [Logged(req[r], "Transform") EXCEPT !.ffmpeg = exited]
         filePath == assetPath(q.videoId, extension(q.upload.type))
         readable == Exists(disk, filePath)
     IN IF ~readable \/ TranscodeThrows(exited) THEN
          /\ req' = [req EXCEPT ![r] = Throw(q, "TranscodeError", 500)]
          /\ UNCHANGED disk
        ELSE
          /\ disk' = WriteFile(disk, processedPath(filePath), faststart(disk[filePath]))
          /\ req' = [req EXCEPT ![r] = [q EXCEPT !.pc = "s3write"]]
  /\ UNCHANGED <<db, inflight, s3, videoThumbnails, width, height, category>>

\* `await s3File.write(file)` settles; on success the record is updated and
\* the deletion of the processed file is started
VideoStore(r, ok) ==
  /\ req[r].kind = "video" /\ req[r].pc = "s3write"
  /\ LET q == Logged(req[r], "Store")
         filePath == assetPath(q.videoId, extension(q.upload.type))
         file == StoredFile(filePath)
         updated == [q.video EXCEPT !.videoURL = url("s3CfDistribution", q.key)]
     IN IF ~ok \/ ~Exists(disk, file) THEN
          /\ req' = [req EXCEPT ![r] = Throw(req[r], "StorageError", 500)]
          /\ UNCHANGED <<db, s3>>
        ELSE
          /\ s3' = {o \in s3 : o.key # q.key}
                     \cup {[key |-> q.key, body |-> disk[file], type |-> q.upload.type]}
          /\ db' = updateVideo(db, updated)
          /\ req' = [req EXCEPT ![r] =
                       [Logged(q, "RecordUpdate") EXCEPT !.pc = "delete",
                                                         !.video = updated]]
  /\ UNCHANGED <<disk, inflight, videoThumbnails, width, height, category>>

\* `await file.delete()` settles; on success the response is sent
VideoCleanup(r) ==
  /\ req[r].kind = "video" /\ req[r].pc = "delete"
  /\ LET q == req[r]
         file == processedPath(assetPath(q.videoId, extension(q.upload.type)))
     IN IF Exists(disk, file) THEN
          /\ disk' = DeleteFile(disk, file)
          /\ req' = [req EXCEPT ![r] = respondWithJSON(Logged(q, "Cleanup"), q.video)]
        ELSE
          /\ req' = [req EXCEPT ![r] = Throw(q, "IOError", 500)]
          /\ UNCHANGED disk
  /\ UNCHANGED <<db, inflight, s3, videoThumbnails, width, height, category>>

\* ------------------------------------------------------------ specification
Next ==
  \/ \E r \in Reqs, c \in Requests : ThumbnailReceive(r, c.videoId, c.token, c.upload)
  \/ \E r \in Reqs : ThumbnailStore(r)
  \/ \E w \in inflight, ok \in BOOLEAN : BunWriteSettles(w, ok)
  \/ \E r \in Reqs, videoId \in VideoIds : handlerGetThumbnail(r, videoId)
  \/ \E r \in Reqs, c \in Requests : VideoReceive(r, c.videoId, c.token, c.upload)
  \/ \E r \in Reqs : VideoPersistTemp(r)
  \/ \E r \in Reqs, result \in ProbeResults : VideoProbe(r, result)
  \/ \E r \in Reqs, exited \in {0, 1} : VideoTransform(r, exited)
  \/ \E r \in Reqs, ok \in BOOLEAN : VideoStore(r, ok)
  \/ \E r \in Reqs : VideoCleanup(r)

Spec == Init /\ [][Next]_vars

\* one classification of a probed width and height, on its own
NamedDims == {1000, 1080, 1920}
InitAspect ==
  /\ db = [id \in {"v1"} |->
            [id |-> id, userID |-> "alice", thumbnailURL |-> NoURL, videoURL |-> NoURL]]
  /\ disk = [p \in {} |-> raw("none")]
  /\ inflight = {}
  /\ s3 = {}
  /\ videoThumbnails = [id \in {} |-> [data |-> "none", mediaType |-> "none"]]
  /\ req = [r \in Reqs |-> Idle]
  /\ width \in (0..MaxDim) \cup NamedDims
  /\ height \in (0..MaxDim) \cup NamedDims
  /\ category = "none"

Classify ==
  /\ category = "none"
  /\ category' = getVideoAspectRatio(width, height)
  /\ UNCHANGED <<db, disk, inflight, s3, videoThumbnails, req, width, height>>

NextAspect == Classify

SpecAspect == InitAspect /\ [][NextAspect]_vars

\* ------------------------------------------------------------------ claims
Uploading(q) == q.kind \in {"thumbnail", "video"}
Ended(q) == q.pc = "ended"
Did(q, step) == \E i \in 1..Len(q.log) : q.log[i] = step
Before(q, a, b) ==
  \E i \in 1..Len(q.log) : q.log[i] = a /\ \A j \in 1..i : q.log[j] # b
Authenticated(q) == q.token \in Users
RecordExists(q) == q.videoId \in DOMAIN db
IsOwner(q) == RecordExists(q) /\ db[q.videoId].userID = q.token
\* the spec's validator: presence, size ceiling, media type whitelist
InvalidUpload(q) ==
  \/ q.upload = NoFile
  \/ q.kind = "thumbnail" /\ q.upload.size > 10 * 1024 * 1024
  \/ q.kind = "thumbnail" /\ q.upload.type \notin {"image/jpeg", "image/png"}
  \/ q.kind = "video" /\ q.upload.size > 1024 * 1024 * 1024
  \/ q.kind = "video" /\ q.upload.type # "video/mp4"
NoEffect(q) ==
  \A step \in {"PersistTemp", "Probe", "Transform", "Store", "RecordUpdate"} : ~Did(q, step)
VideoSteps ==
  <<"Authenticate", "LoadRecord", "ReadForm", "Validate", "PersistTemp", "Probe",
    "Transform", "Store", "RecordUpdate", "Cleanup">>
TempPath(q) == assetPath(q.videoId, "mp4")

\* C1: every URL persisted in a video record names an asset whose storage
\* write has already completed: a thumbnailURL names a file that is on the
\* local disk, a videoURL names an object that is in the remote store.
C1_PersistedURLNamesStoredAsset ==
  \A id \in DOMAIN db :
    /\ db[id].thumbnailURL # NoURL => Exists(disk, keyOf(db[id].thumbnailURL))
    /\ db[id].videoURL # NoURL => \E o \in s3 : o.key = keyOf(db[id].videoURL)

\* C2: an upload by an authenticated user who does not own the existing
\* record ends with Forbidden, whatever file it carries, and never updates
\* the record.
C2_NonOwnerIsForbidden ==
  \A r \in Reqs :
    (Uploading(req[r]) /\ Authenticated(req[r]) /\ RecordExists(req[r])
       /\ ~IsOwner(req[r]))
    => /\ ~Did(req[r], "RecordUpdate")
       /\ Ended(req[r]) => req[r].outcome = "Forbidden"

\* C3 (as stated): an upload (by a caller with a valid token) whose file is
\* missing, oversized or of a type outside the whitelist does none of temp
\* write, probe, transcode, storage write and record update, and ends with
\* BadInput.
C3_InvalidUploadIsBadInput ==
  \A r \in Reqs :
    (Uploading(req[r]) /\ Authenticated(req[r]) /\ InvalidUpload(req[r]))
    => /\ NoEffect(req[r])
       /\ Ended(req[r]) => req[r].outcome = "BadInput"

\* C3 (amended): an upload whose file is missing, oversized or of a type
\* outside the whitelist does none of temp write, probe, transcode, storage
\* write and record update; it ends with BadInput when the caller is
\* authenticated and, in the video pipeline, owns the existing record; in
\* the video pipeline a missing record ends it with NotFound and a foreign
\* record with Forbidden.
C3_InvalidUploadHasNoEffect ==
  \A r \in Reqs :
    (Uploading(req[r]) /\ InvalidUpload(req[r]))
    => /\ NoEffect(req[r])
       /\ (Ended(req[r]) /\ Authenticated(req[r]))
          => req[r].outcome =
               IF req[r].kind = "thumbnail" \/ IsOwner(req[r]) THEN "BadInput"
               ELSE IF RecordExists(req[r]) THEN "Forbidden" ELSE "NotFound"

C3_Witness ==
  /\ \E r \in Reqs : /\ req[r].kind = "video" /\ req[r].outcome = "BadInput"
                     /\ req[r].upload.size = MAX_UPLOAD_SIZE_VIDEO + 1
  /\ \E r \in Reqs : /\ req[r].kind = "thumbnail" /\ req[r].outcome = "BadInput"
                     /\ req[r].upload.type = "video/mp4"

\* C4: a GET of the thumbnail that follows a successful upload of a JPEG
\* thumbnail for the same video returns the uploaded bytes with the declared
\* media type.
C4_GetReturnsUploadedThumbnail ==
  \A g \in Reqs :
    LET ups == {p \in req[g].after : req[p].upload.type = "image/jpeg"}
    IN (req[g].kind = "get" /\ Ended(req[g]) /\ ups # {})
       => /\ req[g].outcome = "Done"
          /\ \E p \in ups : /\ req[g].body = req[p].data
                            /\ req[g].contentType = req[p].upload.type

\* C5: a request updates the record at most once, and a request that has
\* updated the record and ended has ended Done with status 200; a request
\* that ended Failed has not written the record.
C5_FailedRequestWritesNothing ==
  \A r \in Reqs :
    Uploading(req[r])
    => /\ Cardinality({i \in 1..Len(req[r].log) : req[r].log[i] = "RecordUpdate"}) <= 1
       /\ (Ended(req[r]) /\ Did(req[r], "RecordUpdate"))
          => req[r].outcome = "Done" /\ req[r].status = 200

\* C6: the record is loaded and checked before the form is read, and an
\* authenticated upload to a video id without a record ends with NotFound.
C6_AuthCheckBeforeForm ==
  \A r \in Reqs :
    Uploading(req[r])
    => /\ Did(req[r], "ReadForm") => Before(req[r], "LoadRecord", "ReadForm")
       /\ (Ended(req[r]) /\ Authenticated(req[r]) /\ ~RecordExists(req[r]))
          => req[r].outcome = "NotFound"

\* C7: the category computed from a width and a height is the reference
\* one: landscape if width = floor(16*height/9), else portrait if
\* height = floor(16*width/9), else other; 1920x1080 is landscape, 1080x1920
\* portrait and 1000x1000 other.
C7_AspectIsReference ==
  category # "none"
  => /\ category = IF width = (16 * height) \div 9 THEN "landscape"
                   ELSE IF height = (16 * width) \div 9 THEN "portrait"
                   ELSE "other"
     /\ (width = 1920 /\ height = 1080) => category = "landscape"
     /\ (width = 1080 /\ height = 1920) => category = "portrait"
     /\ (width = 1000 /\ height = 1000) => category = "other"

C7_Witness == width = 1080 /\ height = 1920 /\ category = "portrait"

\* C8: when a video upload whose remote write succeeded has ended, neither
\* its temp file nor the processed file is left on disk.
C8_NoTempFileLeft ==
  \A r \in Reqs :
    (req[r].kind = "video" /\ Ended(req[r]) /\ Did(req[r], "Store"))
    => /\ ~Exists(disk, TempPath(req[r]))
       /\ ~Exists(disk, processedPath(TempPath(req[r])))

\* C9: the steps of a video upload happen in the pipeline's order; after a
\* probe that exits nonzero or prints no stream there is no transcode, no
\* remote write and no record update; after a transcode that exits nonzero
\* there is no remote write and no record update; every stored object is a
\* processed file.
C9_VideoStepsInOrder ==
  /\ \A r \in Reqs :
       req[r].kind = "video"
       => /\ req[r].log = SubSeq(VideoSteps, 1, Len(req[r].log))
          /\ (Did(req[r], "Probe")
                /\ (req[r].probe.exited # 0 \/ req[r].probe.streams = 0))
             => \A step \in {"Transform", "Store", "RecordUpdate"} : ~Did(req[r], step)
          /\ (Did(req[r], "Transform") /\ req[r].ffmpeg # 0)
             => \A step \in {"Store", "RecordUpdate"} : ~Did(req[r], step)
  /\ \A o \in s3 : o.body.faststart

C9_Witness ==
  /\ \E r \in Reqs : /\ req[r].kind = "video" /\ req[r].outcome = "ProbeError"
                     /\ req[r].probe = [exited |-> 0, streams |-> 0]
  /\ \E r \in Reqs : /\ req[r].kind = "video" /\ Did(req[r], "RecordUpdate")
                     /\ \E o \in s3 : o.key = req[r].key

\* C10: a video upload that ended Done has stored, under its own key, the
\* processed form of the bytes it uploaded itself, and the category in its
\* key was probed from those bytes.
C10_DoneRequestStoredOwnBytes ==
  \A r \in Reqs :
    (req[r].kind = "video" /\ req[r].outcome = "Done")
    => /\ \E o \in s3 : o.key = req[r].key /\ o.body = faststart(raw(req[r].data))
       /\ req[r].category = categoryOf[req[r].data]

====
